---- MODULE Spec2Model ----
(***************************************************************************)
(* Model of WordService (src/unnamed/part_002, lines 68-271): findWords,    *)
(* getMostCommonWordArticle and processArticle over a Redis cache and a    *)
(* PostgreSQL store reached through Prisma.                                *)
(*                                                                         *)
(* A JavaScript string is modelled as the sequence of its UTF-16 code      *)
(* units (natural numbers), so that length, toLowerCase, the regular       *)
(* expressions \b and \w, the default sort order and string concatenation  *)
(* are computed the way the engine computes them.                          *)
(***************************************************************************)
EXTENDS Integers, Sequences, FiniteSets, TLC

----------------------------------------------------------------------------
(* Strings used by the program and by the inputs of the model. *)

\* "find-words:"  (line 113; line numbers are those of src/unnamed/part_002)
FindWordsPrefix == <<102, 105, 110, 100, 45, 119, 111, 114, 100, 115, 58>>
\* "most-common-word:"  (line 165 and line 264)
MostCommonWordPrefix ==
    <<109, 111, 115, 116, 45, 99, 111, 109, 109, 111, 110, 45, 119, 111, 114, 100, 58>>
\* "top-words:*"  (line 262)
TopWordsPattern == <<116, 111, 112, 45, 119, 111, 114, 100, 115, 58, 42>>
\* ","  (line 113)
Comma == <<44>>

s_a == <<97>>
s_b == <<98>>
s_A == <<65>>
s_B == <<66>>
s_constructor == <<99, 111, 110, 115, 116, 114, 117, 99, 116, 111, 114>>
s_proto == <<95, 95, 112, 114, 111, 116, 111, 95, 95>>
s_toString == <<116, 111, 83, 116, 114, 105, 110, 103>>
s_valueOf == <<118, 97, 108, 117, 101, 79, 102>>
s_hasOwnProperty ==
    <<104, 97, 115, 79, 119, 110, 80, 114, 111, 112, 101, 114, 116, 121>>

\* Property names every object literal inherits from Object.prototype: a read
\* of obj[name] for one of them yields the inherited (truthy, non-array) value
\* when obj has no own property of that name.
ObjectPrototypeKeys ==
    {s_constructor, s_proto, s_toString, s_valueOf, s_hasOwnProperty}

----------------------------------------------------------------------------
(* String primitives of the engine. *)

\* \w of a regular expression without the u flag: [A-Za-z0-9_]
IsWordChar(c) ==
    \/ c \in 48..57
    \/ c \in 65..90
    \/ c = 95
    \/ c \in 97..122

\* String.prototype.toLowerCase on one code unit.  A-Z map to a-z; U+0130
\* (capital I with dot above) maps to the two units U+0069 U+0307; every other
\* unit of the modelled alphabet is its own lower case.
LowerUnit(c) ==
    IF c \in 65..90 THEN <<c + 32>>
    ELSE IF c = 304 THEN <<105, 775>>
    ELSE <<c>>

RECURSIVE ToLowerCase(_)
ToLowerCase(s) ==
    IF s = <<>> THEN <<>>
    ELSE LowerUnit(Head(s)) \o ToLowerCase(Tail(s))

\* s < t in the order of Array.prototype.sort without a comparator:
\* lexicographic by UTF-16 code unit, a proper prefix first.
RECURSIVE StrLess(_, _)
StrLess(s, t) ==
    IF t = <<>> THEN FALSE
    ELSE IF s = <<>> THEN TRUE
    ELSE IF Head(s) # Head(t) THEN Head(s) < Head(t)
    ELSE StrLess(Tail(s), Tail(t))

\* Insert w into the sorted list l after every element that is not greater
\* (the sort is stable).
RECURSIVE SortInsert(_, _)
SortInsert(l, w) ==
    IF l = <<>> THEN <<w>>
    ELSE IF StrLess(w, Head(l)) THEN <<w>> \o l
    ELSE <<Head(l)>> \o SortInsert(Tail(l), w)

\* words.sort()
RECURSIVE ArraySort(_)
ArraySort(l) ==
    IF l = <<>> THEN <<>>
    ELSE SortInsert(ArraySort(SubSeq(l, 1, Len(l) - 1)), l[Len(l)])

\* words.join(',')
RECURSIVE ArrayJoin(_, _)
ArrayJoin(l, sep) ==
    IF l = <<>> THEN <<>>
    ELSE IF Len(l) = 1 THEN l[1]
    ELSE l[1] \o sep \o ArrayJoin(Tail(l), sep)

\* words.map(word => word.toLowerCase())
MapToLowerCase(l) == [i \in 1..Len(l) |-> ToLowerCase(l[i])]

\* content.split(/\b/): the text cut at every word boundary, that is into its
\* maximal runs of word characters and of non-word characters; the empty
\* string gives the one-element array [""].
RECURSIVE SplitRuns(_, _, _, _)
SplitRuns(s, i, cur, acc) ==
    IF i > Len(s) THEN Append(acc, cur)
    ELSE IF cur = <<>> \/ (IsWordChar(s[i]) <=> IsWordChar(cur[1]))
         THEN SplitRuns(s, i + 1, Append(cur, s[i]), acc)
         ELSE SplitRuns(s, i + 1, <<s[i]>>, Append(acc, cur))

SplitWordBoundary(s) == SplitRuns(s, 1, <<>>, <<>>)

\* /^\w+$/.test(word)
IsWordToken(w) == w # <<>> /\ \A i \in 1..Len(w) : IsWordChar(w[i])

----------------------------------------------------------------------------
(* Object literals used as dictionaries.  An object is the sequence of its *)
(* own properties <<key, value>> in insertion order; its prototype is      *)
(* Object.prototype.                                                       *)

ObjKeys(o) == {o[i][1] : i \in 1..Len(o)}

ObjHasOwn(o, k) == k \in ObjKeys(o)

ObjOwn(o, k) == o[CHOOSE i \in 1..Len(o) : o[i][1] = k][2]

\* obj[k] = v.  Assigning to "__proto__" runs the inherited setter: it
\* replaces the prototype and creates no own property.
ObjSet(o, k, v) ==
    IF k = s_proto THEN o
    ELSE IF ObjHasOwn(o, k)
         THEN [i \in 1..Len(o) |-> IF o[i][1] = k THEN <<k, v>> ELSE o[i]]
         ELSE Append(o, <<k, v>>)

\* Is obj[k] truthy?  Own values here are arrays (always truthy); an inherited
\* property of Object.prototype is a function or an object (truthy).
ObjTruthy(o, k) == ObjHasOwn(o, k) \/ k \in ObjectPrototypeKeys

\* The loop of processArticle over the split text (lines 211-222).  The
\* result is [thrown, wordPositions]: obj[word].push throws a TypeError when
\* obj[word] is an inherited property and not an array.
RECURSIVE AggregateLoop(_, _, _, _)
AggregateLoop(words, i, position, wp) ==
    IF i > Len(words) THEN [thrown |-> FALSE, wordPositions |-> wp]
    ELSE LET word == words[i]
             next == position + Len(word)
         IN IF ~IsWordToken(word)
            THEN AggregateLoop(words, i + 1, next, wp)
            ELSE LET wp1 == IF ~ObjTruthy(wp, word)
                            THEN ObjSet(wp, word, <<>>)
                            ELSE wp
                 IN IF ~ObjHasOwn(wp1, word)
                    THEN [thrown |-> TRUE, wordPositions |-> wp1]
                    ELSE AggregateLoop(words, i + 1, next,
                            ObjSet(wp1, word, Append(ObjOwn(wp1, word), position)))

\* Lines 210-222 of processArticle.
BuildWordPositions(content) ==
    AggregateLoop(SplitWordBoundary(ToLowerCase(content)), 1, 0, <<>>)

\* Line 113 of findWords: the array after words.sort() and the cache key.
FindWordsCacheKey(words) == FindWordsPrefix \o ArrayJoin(ArraySort(words), Comma)

\* Line 165 of getMostCommonWordArticle.
MostCommonCacheKey(word) == MostCommonWordPrefix \o ToLowerCase(word)

----------------------------------------------------------------------------
(* Program constants. *)

\* retryOptions.retries (line 70): p-retry makes 1 + retries attempts.
Retries == 3
\* redis.set(cacheKey, ..., 'EX', 600) (line 102)
CacheTtl == 600

(* Bounds of the model. *)

\* Longest text whose aggregation is enumerated exhaustively.
MaxLen == 4
\* Longest word list whose cache key is enumerated exhaustively.
MaxWords == 2
\* Number of calls the callers of the service make in one run.
MaxCalls == 2

----------------------------------------------------------------------------
(* Inputs. *)

Procs == {"p1", "p2"}

\* Article ids are opaque to the service.
Articles == {"1", "2"}

s_A_a == <<65, 32, 97>>
s_A_a_b == <<65, 32, 97, 32, 98>>

\* Texts handed to processArticle: "", "A a b", "b", "a".
Contents == {<<>>, s_A_a_b, s_b, s_a}

\* Word lists handed to findWords: ["a","B"], ["__proto__"].
WordLists == {<<s_a, s_B>>, <<s_proto>>}

\* Words handed to getMostCommonWordArticle: "A".
QueryWords == {s_A}

\* What the store holds when the service starts (the store outlives the
\* service): nothing, or the index of "A a" for article 1 and of "a" for
\* article 2.  NoText marks an article that was never indexed.
NoText == <<0>>
InitialTexts ==
    {[id \in Articles |-> NoText],
     [id \in Articles |-> IF id = "1" THEN s_A_a ELSE s_a]}

\* Code units of the exhaustively enumerated texts: a A space U+0130.
TextUnits == {97, 65, 32, 304}

RECURSIVE SeqsUpTo(_, _)
SeqsUpTo(S, n) ==
    IF n = 0 THEN {<<>>}
    ELSE LET shorter == SeqsUpTo(S, n - 1)
         IN shorter \cup {Append(s, x) : s \in {t \in shorter : Len(t) = n - 1}, x \in S}

\* Every text of at most MaxLen units, and two texts that contain a word
\* naming a property of Object.prototype: "constructor", "a __proto__".
TextInputs ==
    SeqsUpTo(TextUnits, MaxLen) \cup {s_constructor, <<97, 32>> \o s_proto}

s_empty == <<>>
s_a_comma_b == <<97, 44, 98>>

\* Every word list of at most MaxWords words over "a", "A", "b", "" and
\* "a,b" (a word that contains the separator of the key).
KeyInputs == SeqsUpTo({s_a, s_A, s_b, s_empty, s_a_comma_b}, MaxWords)

\* null and undefined, distinct from every payload and result.
Null == [null |-> TRUE]
Undefined == [undefined |-> TRUE]

----------------------------------------------------------------------------
(* State. *)

VARIABLES
    wordIndex,         \* committed rows of table word_index
    wordArticleCount,  \* committed rows of table word_article_count
    cache,             \* Redis: key -> [payload, ttl]
    req,               \* per request slot: the call in progress and its locals
    calls,             \* number of calls made so far
    text,              \* input of the aggregation run
    agg,               \* its state and output
    lists,             \* inputs of the cache-key run (two word lists)
    keys               \* its state and output

vars == <<wordIndex, wordArticleCount, cache, req, calls, text, agg, lists, keys>>
svcVars == <<wordIndex, wordArticleCount, cache, req, calls>>
callVars == <<calls, text, agg, lists, keys>>
pureVars == <<text, agg, lists, keys>>

NoTx == [delIndex |-> {}, delCount |-> {}, insIndex |-> {}, insCount |-> {}, i |-> 0]

Idle ==
    [op |-> "none", pc |-> "idle", arg |-> <<>>, words |-> <<>>, cacheKey |-> <<>>,
     attempt |-> 0, ret |-> Undefined, results |-> Undefined,
     wordPositions |-> <<>>, tx |-> NoTx, pendingDels |-> {},
     warned |-> FALSE, errored |-> FALSE, thrown |-> "none",
     \* thrown: the error that reached the catch block of the method.
     \* History of the call, read by the properties only:
     getExhausted |-> FALSE, queried |-> Undefined, setCalls |-> {},
     delCalls |-> {}, overlap |-> FALSE, startRows |-> <<>>,
     lastCommit |-> FALSE]

----------------------------------------------------------------------------
(* Cache payloads and store queries. *)

\* JSON.stringify of a result (own enumerable properties, in order) and
\* JSON.parse of a payload written by it.
JSONStringify(v) == [json |-> v]

JSONParse(payload) == payload.json

\* A payload that is not JSON text, left under a key of the service by
\* another writer of the Redis instance: JSON.parse throws a SyntaxError.
Malformed == [text |-> "not JSON"]

\* Does JSON.parse return for this payload?
Parsable(payload) == "json" \in DOMAIN payload

\* redis.get(key): the payload, or null when the key is absent.
RedisGet(key) == IF key \in DOMAIN cache THEN cache[key].payload ELSE Null

\* The cache without key k.
CacheWithout(k) == [x \in DOMAIN cache \ {k} |-> cache[x]]

\* Every order in which a query may return the rows of S.
Orders(S) ==
    {s \in [1..Cardinality(S) -> S] : \A i, j \in 1..Cardinality(S) : s[i] = s[j] => i = j}

\* .filter(index => index.word === word)
RECURSIVE FilterWord(_, _)
FilterWord(rows, word) ==
    IF rows = <<>> THEN <<>>
    ELSE IF Head(rows).word = word
         THEN <<Head(rows)>> \o FilterWord(Tail(rows), word)
         ELSE FilterWord(Tail(rows), word)

\* .map(index => ({article_id: index.articleId, offsets: index.positions}))
MapEntries(rows) ==
    [i \in 1..Len(rows) |->
        [article_id |-> rows[i].articleId, offsets |-> rows[i].positions]]

\* Lines 142-151: the loop that fills results from the rows of the query.
RECURSIVE FormatResults(_, _, _, _)
FormatResults(normalizedWords, i, wordIndexes, results) ==
    IF i > Len(normalizedWords) THEN results
    ELSE FormatResults(normalizedWords, i + 1, wordIndexes,
            ObjSet(results, normalizedWords[i],
                   MapEntries(FilterWord(wordIndexes, normalizedWords[i]))))

\* Lines 127-136: findMany where word in normalizedWords (committed rows).
FindManyRows(normalizedWords) ==
    {r \in wordIndex : \E i \in 1..Len(normalizedWords) : r.word = normalizedWords[i]}

\* Mutant of FindFirstRows: the rows are not ordered by count.
FindFirstRowsAnyCount(w) ==
    {r \in wordArticleCount : r.word = w}

\* Lines 176-183: findFirst where word = w order by count desc.  The order
\* among rows of equal count is not specified by the query.
FindFirstRows(w) ==
    LET rows == {r \in wordArticleCount : r.word = w}
    IN {r \in rows : \A o \in rows : o.count <= r.count}

\* The rows a committed processArticle(id, content) writes (lines 237-254).
IndexRows(id, content) ==
    LET wp == BuildWordPositions(content).wordPositions
    IN {[articleId |-> id, word |-> wp[i][1], positions |-> wp[i][2]] : i \in 1..Len(wp)}

CountRows(id, content) ==
    LET wp == BuildWordPositions(content).wordPositions
    IN {[articleId |-> id, word |-> wp[i][1], count |-> Len(wp[i][2])] : i \in 1..Len(wp)}

\* Committed rows of one article in both tables.
ArticleRows(id) ==
    <<{r \in wordIndex : r.articleId = id}, {r \in wordArticleCount : r.articleId = id}>>

----------------------------------------------------------------------------
(* Requests.  Each action is one step between two awaits of a call. *)

Put(p, r) == req' = [req EXCEPT ![p] = r]

\* Mutant of Exhausted: one more retry is made.
ExhaustedAfterFive(r) == r.attempt >= Retries + 1

\* The outcome of a failed attempt under p-retry: another attempt while fewer
\* than Retries attempts have failed before it, otherwise the error is
\* rethrown to the caller of pRetry.
Exhausted(r) == r.attempt >= Retries

\* findWords, lines 112-116: sort the caller's array in place, build the
\* key, start the first cache get.
CallFindWords(p, words) ==
    /\ req[p].pc = "idle"
    /\ calls < MaxCalls
    /\ calls' = calls + 1
    /\ Put(p, [Idle EXCEPT !.op = "findWords", !.pc = "get", !.arg = words,
                           !.words = ArraySort(words),
                           !.cacheKey = FindWordsCacheKey(words)])
    /\ UNCHANGED <<wordIndex, wordArticleCount, cache, pureVars>>

\* getMostCommonWordArticle, lines 164-168.
CallGetMostCommonWordArticle(p, word) ==
    /\ req[p].pc = "idle"
    /\ calls < MaxCalls
    /\ calls' = calls + 1
    /\ Put(p, [Idle EXCEPT !.op = "getMostCommonWordArticle", !.pc = "get",
                           !.arg = word, !.cacheKey = MostCommonCacheKey(word)])
    /\ UNCHANGED <<wordIndex, wordArticleCount, cache, pureVars>>

\* Mutant of CacheGetOk: the payload found in the cache is ignored.
CacheGetOkRequeries(p) ==
    LET r == req[p]
    IN /\ r.pc = "get"
       /\ Put(p, [r EXCEPT !.pc = "query", !.attempt = 0])
       /\ UNCHANGED <<wordIndex, wordArticleCount, cache, callVars>>

\* getCachedResult, lines 84-91, and the test of its result (lines 117-119,
\* 169-171): an attempt whose redis.get resolved.  A payload is parsed
\* (result ? JSON.parse(result) : null); the parsed results are objects, which
\* are truthy, so the caller returns them.
CacheGetOk(p) ==
    LET r == req[p]
        result == RedisGet(r.cacheKey)
    IN /\ r.pc = "get"
       /\ (result = Null \/ Parsable(result))
       /\ IF result # Null
          THEN Put(p, [r EXCEPT !.pc = "returned", !.ret = JSONParse(result)])
          ELSE Put(p, [r EXCEPT !.pc = "query", !.attempt = 0])
       /\ UNCHANGED <<wordIndex, wordArticleCount, cache, callVars>>

\* Mutant of CacheGetUnparsable: the SyntaxError is rethrown to the caller.
CacheGetUnparsableRaises(p) ==
    LET r == req[p]
        result == RedisGet(r.cacheKey)
    IN /\ r.pc = "get"
       /\ result # Null /\ ~Parsable(result)
       /\ Put(p, [r EXCEPT !.pc = "raised", !.errored = TRUE, !.thrown = "SyntaxError"])
       /\ UNCHANGED <<wordIndex, wordArticleCount, cache, callVars>>

\* getCachedResult, lines 84-95: redis.get resolved with a payload on which
\* JSON.parse (line 87) throws.  The throw is inside the function p-retry
\* runs, so the get is attempted again; after the last attempt the error is
\* logged as a warning and null is returned.
CacheGetUnparsable(p) ==
    LET r == req[p]
        result == RedisGet(r.cacheKey)
    IN /\ r.pc = "get"
       /\ result # Null /\ ~Parsable(result)
       /\ IF Exhausted(r)
          THEN Put(p, [r EXCEPT !.pc = "query", !.attempt = 0,
                                !.warned = TRUE, !.getExhausted = TRUE])
          ELSE Put(p, [r EXCEPT !.attempt = @ + 1])
       /\ UNCHANGED <<wordIndex, wordArticleCount, cache, callVars>>

\* Mutant of CacheGetFail: the last failed get is rethrown to the caller.
CacheGetFailRaises(p) ==
    LET r == req[p]
    IN /\ r.pc = "get"
       /\ IF Exhausted(r)
          THEN Put(p, [r EXCEPT !.pc = "raised", !.errored = TRUE, !.thrown = "cache",
                                !.warned = TRUE, !.getExhausted = TRUE])
          ELSE Put(p, [r EXCEPT !.attempt = @ + 1])
       /\ UNCHANGED <<wordIndex, wordArticleCount, cache, callVars>>

\* getCachedResult, lines 84-95: an attempt whose redis.get rejected; after
\* the last one the error is logged as a warning and null is returned.
CacheGetFail(p) ==
    LET r == req[p]
    IN /\ r.pc = "get"
       /\ IF Exhausted(r)
          THEN Put(p, [r EXCEPT !.pc = "query", !.attempt = 0,
                                !.warned = TRUE, !.getExhausted = TRUE])
          ELSE Put(p, [r EXCEPT !.attempt = @ + 1])
       /\ UNCHANGED <<wordIndex, wordArticleCount, cache, callVars>>

\* findWords, lines 122-154: the query resolved; format the rows and start
\* the first cache set.
FindWordsQueryOk(p) ==
    LET r == req[p]
        normalizedWords == MapToLowerCase(r.words)
    IN /\ r.pc = "query"
       /\ r.op = "findWords"
       /\ \E wordIndexes \in Orders(FindManyRows(normalizedWords)) :
            LET results == FormatResults(normalizedWords, 1, wordIndexes, <<>>)
            IN Put(p, [r EXCEPT !.pc = "set", !.attempt = 0,
                                !.queried = wordIndexes, !.results = results,
                                !.setCalls = {[key |-> r.cacheKey,
                                               payload |-> JSONStringify(results),
                                               ttl |-> CacheTtl]}])
       /\ UNCHANGED <<wordIndex, wordArticleCount, cache, callVars>>

\* Mutant of MostCommonQueryOk: the null result is cached like a row.
MostCommonQueryOkCachesNull(p) ==
    LET r == req[p]
        rows == FindFirstRows(ToLowerCase(r.arg))
    IN /\ r.pc = "query"
       /\ r.op = "getMostCommonWordArticle"
       /\ IF rows = {}
          THEN Put(p, [r EXCEPT !.pc = "set", !.attempt = 0,
                                !.queried = Null, !.results = Null,
                                !.setCalls = {[key |-> r.cacheKey,
                                               payload |-> JSONStringify(Null),
                                               ttl |-> CacheTtl]}])
          ELSE \E mostCommon \in rows :
                 LET result == [article_id |-> mostCommon.articleId,
                                count |-> mostCommon.count]
                 IN Put(p, [r EXCEPT !.pc = "set", !.attempt = 0,
                                     !.queried = mostCommon, !.results = result,
                                     !.setCalls = {[key |-> r.cacheKey,
                                                    payload |-> JSONStringify(result),
                                                    ttl |-> CacheTtl]}])
       /\ UNCHANGED <<wordIndex, wordArticleCount, cache, callVars>>

\* getMostCommonWordArticle, lines 174-198: the query resolved.
MostCommonQueryOk(p) ==
    LET r == req[p]
        rows == FindFirstRows(ToLowerCase(r.arg))
    IN /\ r.pc = "query"
       /\ r.op = "getMostCommonWordArticle"
       /\ IF rows = {}
          THEN Put(p, [r EXCEPT !.pc = "returned", !.ret = Null, !.queried = Null])
          ELSE \E mostCommon \in rows :
                 LET result == [article_id |-> mostCommon.articleId,
                                count |-> mostCommon.count]
                 IN Put(p, [r EXCEPT !.pc = "set", !.attempt = 0,
                                     !.queried = mostCommon, !.results = result,
                                     !.setCalls = {[key |-> r.cacheKey,
                                                    payload |-> JSONStringify(result),
                                                    ttl |-> CacheTtl]}])
       /\ UNCHANGED <<wordIndex, wordArticleCount, cache, callVars>>

\* Mutant of QueryFail: the last failed query is swallowed and null returned.
QueryFailReturnsNull(p) ==
    LET r == req[p]
    IN /\ r.pc = "query"
       /\ IF Exhausted(r)
          THEN Put(p, [r EXCEPT !.pc = "returned", !.ret = Null, !.errored = TRUE,
                                !.thrown = "store"])
          ELSE Put(p, [r EXCEPT !.attempt = @ + 1])
       /\ UNCHANGED <<wordIndex, wordArticleCount, cache, callVars>>

\* Lines 125-139 and 174-186: an attempt of the store query rejected; after
\* the last one the error reaches the catch block (lines 157-160, 201-204),
\* is logged as an error and rethrown.
QueryFail(p) ==
    LET r == req[p]
    IN /\ r.pc = "query"
       /\ IF Exhausted(r)
          THEN Put(p, [r EXCEPT !.pc = "raised", !.errored = TRUE, !.thrown = "store"])
          ELSE Put(p, [r EXCEPT !.attempt = @ + 1])
       /\ UNCHANGED <<wordIndex, wordArticleCount, cache, callVars>>

\* setCachedResult, lines 100-105: redis.set resolved; the caller returns
\* its result.
CacheSetOk(p) ==
    LET r == req[p]
        entry == [payload |-> JSONStringify(r.results), ttl |-> CacheTtl]
    IN /\ r.pc = "set"
       /\ cache' = [x \in DOMAIN cache \cup {r.cacheKey} |->
                       IF x = r.cacheKey THEN entry ELSE cache[x]]
       /\ Put(p, [r EXCEPT !.pc = "returned", !.ret = r.results])
       /\ UNCHANGED <<wordIndex, wordArticleCount, callVars>>

\* Mutant of CacheSetFail: the last failed set is rethrown to the caller.
CacheSetFailRaises(p) ==
    LET r == req[p]
    IN /\ r.pc = "set"
       /\ IF Exhausted(r)
          THEN Put(p, [r EXCEPT !.pc = "raised", !.errored = TRUE, !.thrown = "cache",
                                !.warned = TRUE])
          ELSE Put(p, [r EXCEPT !.attempt = @ + 1])
       /\ UNCHANGED <<wordIndex, wordArticleCount, cache, callVars>>

\* setCachedResult, lines 100-108: redis.set rejected; after the last attempt
\* a warning is logged and the caller still returns its result.
CacheSetFail(p) ==
    LET r == req[p]
    IN /\ r.pc = "set"
       /\ IF Exhausted(r)
          THEN Put(p, [r EXCEPT !.pc = "returned", !.ret = r.results, !.warned = TRUE])
          ELSE Put(p, [r EXCEPT !.attempt = @ + 1])
       /\ UNCHANGED <<wordIndex, wordArticleCount, cache, callVars>>

----------------------------------------------------------------------------
(* processArticle.  The statements of the interactive transaction run under *)
(* PostgreSQL's default isolation level, READ COMMITTED: a statement sees   *)
(* the rows committed when it runs, the writes of a transaction become      *)
(* visible to others at its commit, and a row deleted by a transaction in   *)
(* progress is locked against other writers until that transaction ends.    *)

TxPcs == {"tx_delIndex", "tx_delCount", "tx_createIndex", "tx_createCount", "tx_commit"}

InTx(q) == req[q].pc \in TxPcs

\* Another call of processArticle for the same article is in progress or has
\* not yet been taken back by its caller.
SameArticleCalls(p, id) ==
    {q \in Procs \ {p} : req[q].op = "processArticle" /\ req[q].arg.articleId = id}

\* processArticle, lines 208-227: build wordPositions; a TypeError thrown by
\* the loop reaches the catch block (lines 266-269), otherwise the first
\* attempt of the transaction starts.
CallProcessArticle(p, id, content) ==
    LET built == BuildWordPositions(content)
        others == SameArticleCalls(p, id)
        call == [Idle EXCEPT !.op = "processArticle",
                             !.arg = [articleId |-> id, content |-> content],
                             !.overlap = (others # {}),
                             !.startRows = ArticleRows(id)]
        mine == IF built.thrown
                THEN [call EXCEPT !.pc = "raised", !.errored = TRUE, !.thrown = "TypeError"]
                ELSE [call EXCEPT !.pc = "tx_delIndex",
                                  !.wordPositions = built.wordPositions]
    IN /\ req[p].pc = "idle"
       /\ calls < MaxCalls
       /\ calls' = calls + 1
       /\ req' = [q \in Procs |->
                    IF q = p THEN mine
                    ELSE IF q \in others THEN [req[q] EXCEPT !.overlap = TRUE]
                    ELSE req[q]]
       /\ UNCHANGED <<wordIndex, wordArticleCount, cache, pureVars>>

\* No row of targets is locked by a delete of another transaction in progress.
Unlocked(p, targets, field) ==
    \A q \in Procs \ {p} : InTx(q) => targets \cap req[q].tx[field] = {}

\* Mutant of TxDeleteIndex: the where clause is dropped.
TxDeleteIndexEveryArticle(p) ==
    LET r == req[p]
        targets == wordIndex
    IN /\ r.pc = "tx_delIndex"
       /\ Unlocked(p, targets, "delIndex")
       /\ Put(p, [r EXCEPT !.pc = "tx_delCount", !.tx.delIndex = targets])
       /\ UNCHANGED <<wordIndex, wordArticleCount, cache, callVars>>

\* tx.wordIndex.deleteMany({where: {articleId}}), lines 229-231.
TxDeleteIndex(p) ==
    LET r == req[p]
        targets == {x \in wordIndex : x.articleId = r.arg.articleId}
    IN /\ r.pc = "tx_delIndex"
       /\ Unlocked(p, targets, "delIndex")
       /\ Put(p, [r EXCEPT !.pc = "tx_delCount", !.tx.delIndex = targets])
       /\ UNCHANGED <<wordIndex, wordArticleCount, cache, callVars>>

\* Mutant of TxDeleteCount: the rows of word_article_count are not deleted.
TxDeleteCountKeepsRows(p) ==
    LET r == req[p]
    IN /\ r.pc = "tx_delCount"
       /\ Put(p, [r EXCEPT !.pc = IF r.wordPositions = <<>> THEN "tx_commit"
                                  ELSE "tx_createIndex",
                           !.tx.i = 1])
       /\ UNCHANGED <<wordIndex, wordArticleCount, cache, callVars>>

\* tx.wordArticleCount.deleteMany({where: {articleId}}), lines 232-234, and
\* the start of the loop of line 237.
TxDeleteCount(p) ==
    LET r == req[p]
        targets == {x \in wordArticleCount : x.articleId = r.arg.articleId}
    IN /\ r.pc = "tx_delCount"
       /\ Unlocked(p, targets, "delCount")
       /\ Put(p, [r EXCEPT !.pc = IF r.wordPositions = <<>> THEN "tx_commit"
                                  ELSE "tx_createIndex",
                           !.tx.delCount = targets, !.tx.i = 1])
       /\ UNCHANGED <<wordIndex, wordArticleCount, cache, callVars>>

\* One row per (articleId, word): an insert succeeds when no committed row
\* of that key remains (other than those this transaction deleted) and no
\* transaction in progress has inserted one.
KeyFree(p, table, delField, insField, id, word) ==
    /\ \A x \in table \ req[p].tx[delField] : ~(x.articleId = id /\ x.word = word)
    /\ \A q \in Procs \ {p} :
          InTx(q) => \A x \in req[q].tx[insField] : ~(x.articleId = id /\ x.word = word)

\* tx.wordIndex.create, lines 238-244.
TxCreateIndex(p) ==
    LET r == req[p]
        entry == r.wordPositions[r.tx.i]
        row == [articleId |-> r.arg.articleId, word |-> entry[1], positions |-> entry[2]]
    IN /\ r.pc = "tx_createIndex"
       /\ KeyFree(p, wordIndex, "delIndex", "insIndex", row.articleId, row.word)
       /\ Put(p, [r EXCEPT !.pc = "tx_createCount", !.tx.insIndex = @ \cup {row}])
       /\ UNCHANGED <<wordIndex, wordArticleCount, cache, callVars>>

\* Mutant of TxCreateCount: the new count is added to the count of the row
\* the transaction deleted for the same word.
TxCreateCountAdds(p) ==
    LET r == req[p]
        entry == r.wordPositions[r.tx.i]
        old == {x \in r.tx.delCount : x.word = entry[1]}
        before == IF old = {} THEN 0 ELSE (CHOOSE x \in old : TRUE).count
        row == [articleId |-> r.arg.articleId, word |-> entry[1],
                count |-> Len(entry[2]) + before]
    IN /\ r.pc = "tx_createCount"
       /\ KeyFree(p, wordArticleCount, "delCount", "insCount", row.articleId, row.word)
       /\ Put(p, [r EXCEPT !.pc = IF r.tx.i < Len(r.wordPositions)
                                  THEN "tx_createIndex" ELSE "tx_commit",
                           !.tx.insCount = @ \cup {row}, !.tx.i = @ + 1])
       /\ UNCHANGED <<wordIndex, wordArticleCount, cache, callVars>>

\* tx.wordArticleCount.create, lines 247-253, and the next turn of the loop.
TxCreateCount(p) ==
    LET r == req[p]
        entry == r.wordPositions[r.tx.i]
        row == [articleId |-> r.arg.articleId, word |-> entry[1], count |-> Len(entry[2])]
    IN /\ r.pc = "tx_createCount"
       /\ KeyFree(p, wordArticleCount, "delCount", "insCount", row.articleId, row.word)
       /\ Put(p, [r EXCEPT !.pc = IF r.tx.i < Len(r.wordPositions)
                                  THEN "tx_createIndex" ELSE "tx_commit",
                           !.tx.insCount = @ \cup {row}, !.tx.i = @ + 1])
       /\ UNCHANGED <<wordIndex, wordArticleCount, cache, callVars>>

\* The callback of $transaction returned (line 255): the store commits.
\* lastCommit marks, among the calls for one article, the one whose
\* transaction committed last.
TxCommit(p) ==
    LET r == req[p]
        earlier == SameArticleCalls(p, r.arg.articleId)
    IN /\ r.pc = "tx_commit"
       /\ wordIndex' = (wordIndex \ r.tx.delIndex) \cup r.tx.insIndex
       /\ wordArticleCount' = (wordArticleCount \ r.tx.delCount) \cup r.tx.insCount
       /\ req' = [q \in Procs |->
                    IF q = p THEN [r EXCEPT !.pc = "committed", !.tx = NoTx,
                                            !.lastCommit = TRUE]
                    ELSE IF q \in earlier THEN [req[q] EXCEPT !.lastCommit = FALSE]
                    ELSE req[q]]
       /\ UNCHANGED <<cache, callVars>>

\* Mutant of TxFail: the deletes of the failed transaction are not rolled back.
TxFailKeepsDeletes(p) ==
    LET r == req[p]
    IN /\ InTx(p)
       /\ wordIndex' = wordIndex \ r.tx.delIndex
       /\ wordArticleCount' = wordArticleCount \ r.tx.delCount
       /\ IF Exhausted(r)
          THEN Put(p, [r EXCEPT !.pc = "raised", !.errored = TRUE, !.thrown = "store",
                                !.tx = NoTx])
          ELSE Put(p, [r EXCEPT !.pc = "tx_delIndex", !.attempt = @ + 1, !.tx = NoTx])
       /\ UNCHANGED <<cache, callVars>>

\* Mutant of TxFail: the failed attempt is not counted.
TxFailRetriesForever(p) ==
    LET r == req[p]
    IN /\ InTx(p)
       /\ Put(p, [r EXCEPT !.pc = "tx_delIndex", !.tx = NoTx])
       /\ UNCHANGED <<wordIndex, wordArticleCount, cache, callVars>>

\* Lines 225-258 and 266-269: a statement or the commit rejected; the store
\* rolls the transaction back.  p-retry starts the transaction again, or
\* after the last attempt the error is logged and rethrown.
TxFail(p) ==
    LET r == req[p]
    IN /\ InTx(p)
       /\ IF Exhausted(r)
          THEN Put(p, [r EXCEPT !.pc = "raised", !.errored = TRUE, !.thrown = "store",
                                !.tx = NoTx])
          ELSE Put(p, [r EXCEPT !.pc = "tx_delIndex", !.attempt = @ + 1, !.tx = NoTx])
       /\ UNCHANGED <<wordIndex, wordArticleCount, cache, callVars>>

\* Mutant of InvalidationKeys: only the first word of the article is invalidated.
InvalidationKeysFirstWord(wordPositions) ==
    {TopWordsPattern} \cup
    {MostCommonWordPrefix \o wordPositions[i][1] : i \in 1..Len(wordPositions) \cap {1}}

\* Lines 261-265: the keys passed to redis.del.
InvalidationKeys(wordPositions) ==
    {TopWordsPattern} \cup
    {MostCommonWordPrefix \o wordPositions[i][1] : i \in 1..Len(wordPositions)}

\* Lines 261-265: pRetry resolved; every redis.del is sent at once and
\* Promise.allSettled waits for all of them.
Invalidate(p) ==
    LET r == req[p]
        dels == InvalidationKeys(r.wordPositions)
    IN /\ r.pc = "committed"
       /\ Put(p, [r EXCEPT !.pc = "invalidate", !.pendingDels = dels, !.delCalls = dels])
       /\ UNCHANGED <<wordIndex, wordArticleCount, cache, callVars>>

\* One redis.del resolved: DEL removes the key of exactly that name.
DelOk(p, k) ==
    LET r == req[p]
    IN /\ r.pc = "invalidate"
       /\ k \in r.pendingDels
       /\ cache' = CacheWithout(k)
       /\ Put(p, [r EXCEPT !.pendingDels = @ \ {k}])
       /\ UNCHANGED <<wordIndex, wordArticleCount, callVars>>

\* One redis.del rejected: allSettled records the rejection, nothing else.
DelFail(p, k) ==
    LET r == req[p]
    IN /\ r.pc = "invalidate"
       /\ k \in r.pendingDels
       /\ Put(p, [r EXCEPT !.pendingDels = @ \ {k}])
       /\ UNCHANGED <<wordIndex, wordArticleCount, cache, callVars>>

\* Promise.allSettled resolved (line 265): processArticle returns.
ProcessArticleReturn(p) ==
    LET r == req[p]
    IN /\ r.pc = "invalidate"
       /\ r.pendingDels = {}
       /\ Put(p, [r EXCEPT !.pc = "returned", !.ret = Undefined])
       /\ UNCHANGED <<wordIndex, wordArticleCount, cache, callVars>>

\* The caller takes the result or the error; the slot is free again.
Finish(p) ==
    /\ req[p].pc \in {"returned", "raised"}
    /\ Put(p, Idle)
    /\ UNCHANGED <<wordIndex, wordArticleCount, cache, callVars>>

\* The TTL of an entry ran out.
Expire(k) ==
    /\ k \in DOMAIN cache
    /\ cache' = CacheWithout(k)
    /\ UNCHANGED <<wordIndex, wordArticleCount, req, callVars>>

----------------------------------------------------------------------------
(* The service. *)

Init ==
    /\ \E texts \in InitialTexts :
          /\ wordIndex = UNION {IndexRows(id, texts[id]) : id \in Articles}
          /\ wordArticleCount = UNION {CountRows(id, texts[id]) : id \in Articles}
    /\ cache = <<>>
    /\ req = [p \in Procs |-> Idle]
    /\ calls = 0
    /\ text = <<>>
    /\ agg = [pc |-> "idle"]
    /\ lists = <<>>
    /\ keys = [pc |-> "idle"]

Next ==
    \/ \E p \in Procs, words \in WordLists : CallFindWords(p, words)
    \/ \E p \in Procs, word \in QueryWords : CallGetMostCommonWordArticle(p, word)
    \/ \E p \in Procs, id \in Articles, content \in Contents :
          CallProcessArticle(p, id, content)
    \/ \E p \in Procs : CacheGetOk(p)
    \/ \E p \in Procs : CacheGetFail(p)
    \/ \E p \in Procs : FindWordsQueryOk(p)
    \/ \E p \in Procs : MostCommonQueryOk(p)
    \/ \E p \in Procs : QueryFail(p)
    \/ \E p \in Procs : CacheSetOk(p)
    \/ \E p \in Procs : CacheSetFail(p)
    \/ \E p \in Procs : TxDeleteIndex(p)
    \/ \E p \in Procs : TxDeleteCount(p)
    \/ \E p \in Procs : TxCreateIndex(p)
    \/ \E p \in Procs : TxCreateCount(p)
    \/ \E p \in Procs : TxCommit(p)
    \/ \E p \in Procs : TxFail(p)
    \/ \E p \in Procs : Invalidate(p)
    \/ \E p \in Procs : \E k \in req[p].pendingDels : DelOk(p, k)
    \/ \E p \in Procs : \E k \in req[p].pendingDels : DelFail(p, k)
    \/ \E p \in Procs : ProcessArticleReturn(p)
    \/ \E p \in Procs : Finish(p)
    \/ \E k \in DOMAIN cache : Expire(k)

Spec == Init /\ [][Next]_vars

\* A step of the call in slot p: the continuation that runs when the backend
\* call it awaits settles.
Step(p) ==
    \/ CacheGetOk(p)
    \/ CacheGetFail(p)
    \/ FindWordsQueryOk(p)
    \/ MostCommonQueryOk(p)
    \/ QueryFail(p)
    \/ CacheSetOk(p)
    \/ CacheSetFail(p)
    \/ TxDeleteIndex(p)
    \/ TxDeleteCount(p)
    \/ TxCreateIndex(p)
    \/ TxCreateCount(p)
    \/ TxCommit(p)
    \/ TxFail(p)
    \/ Invalidate(p)
    \/ \E k \in req[p].pendingDels : DelOk(p, k)
    \/ \E k \in req[p].pendingDels : DelFail(p, k)
    \/ ProcessArticleReturn(p)

----------------------------------------------------------------------------
(* The aggregation of processArticle as a function of the text. *)

InitAgg ==
    /\ wordIndex = {}
    /\ wordArticleCount = {}
    /\ cache = <<>>
    /\ req = [p \in Procs |-> Idle]
    /\ calls = 0
    /\ text \in TextInputs
    /\ agg = [pc |-> "start"]
    /\ lists = <<>>
    /\ keys = [pc |-> "idle"]

\* Lines 210-222 applied to text.
Aggregate ==
    LET built == BuildWordPositions(text)
    IN /\ agg.pc = "start"
       /\ agg' = [pc |-> "done", thrown |-> built.thrown,
                  wordPositions |-> built.wordPositions]
       /\ UNCHANGED <<svcVars, text, lists, keys>>

NextAgg == Aggregate

SpecAgg == InitAgg /\ [][NextAgg]_vars

----------------------------------------------------------------------------
(* The cache key of findWords as a function of the word list. *)

InitKey ==
    /\ wordIndex = {}
    /\ wordArticleCount = {}
    /\ cache = <<>>
    /\ req = [p \in Procs |-> Idle]
    /\ calls = 0
    /\ text = <<>>
    /\ agg = [pc |-> "idle"]
    /\ lists \in KeyInputs \X KeyInputs
    /\ keys = [pc |-> "start"]

\* Line 113 applied to each of the two lists.
ComputeKeys ==
    /\ keys.pc = "start"
    /\ keys' = [pc |-> "done",
                key1 |-> FindWordsCacheKey(lists[1]), key2 |-> FindWordsCacheKey(lists[2]),
                words1 |-> ArraySort(lists[1]), words2 |-> ArraySort(lists[2])]
    /\ UNCHANGED <<svcVars, text, agg, lists>>

NextKey == ComputeKeys

SpecKey == InitKey /\ [][NextKey]_vars

----------------------------------------------------------------------------
(* The service when no backend call fails: every redis.get, redis.set,     *)
(* redis.del, query and transaction resolves at its first attempt.  Calls  *)
(* still run concurrently.                                                 *)

NextOk ==
    \/ \E p \in Procs, words \in WordLists : CallFindWords(p, words)
    \/ \E p \in Procs, word \in QueryWords : CallGetMostCommonWordArticle(p, word)
    \/ \E p \in Procs, id \in Articles, content \in Contents :
          CallProcessArticle(p, id, content)
    \/ \E p \in Procs : CacheGetOk(p)
    \/ \E p \in Procs : FindWordsQueryOk(p)
    \/ \E p \in Procs : MostCommonQueryOk(p)
    \/ \E p \in Procs : CacheSetOk(p)
    \/ \E p \in Procs : TxDeleteIndex(p)
    \/ \E p \in Procs : TxDeleteCount(p)
    \/ \E p \in Procs : TxCreateIndex(p)
    \/ \E p \in Procs : TxCreateCount(p)
    \/ \E p \in Procs : TxCommit(p)
    \/ \E p \in Procs : Invalidate(p)
    \/ \E p \in Procs : \E k \in req[p].pendingDels : DelOk(p, k)
    \/ \E p \in Procs : ProcessArticleReturn(p)
    \/ \E p \in Procs : Finish(p)
    \/ \E k \in DOMAIN cache : Expire(k)

SpecOk == Init /\ [][NextOk]_vars

----------------------------------------------------------------------------
(* The service when, in addition, its callers make one call at a time: a   *)
(* call starts only when no other call is in progress or waiting to be     *)
(* taken back.                                                             *)

Alone(p) == \A q \in Procs \ {p} : req[q].pc = "idle"

NextSeq ==
    \/ \E p \in Procs, words \in WordLists : Alone(p) /\ CallFindWords(p, words)
    \/ \E p \in Procs, word \in QueryWords :
          Alone(p) /\ CallGetMostCommonWordArticle(p, word)
    \/ \E p \in Procs, id \in Articles, content \in Contents :
          Alone(p) /\ CallProcessArticle(p, id, content)
    \/ \E p \in Procs : CacheGetOk(p)
    \/ \E p \in Procs : FindWordsQueryOk(p)
    \/ \E p \in Procs : MostCommonQueryOk(p)
    \/ \E p \in Procs : CacheSetOk(p)
    \/ \E p \in Procs : TxDeleteIndex(p)
    \/ \E p \in Procs : TxDeleteCount(p)
    \/ \E p \in Procs : TxCreateIndex(p)
    \/ \E p \in Procs : TxCreateCount(p)
    \/ \E p \in Procs : TxCommit(p)
    \/ \E p \in Procs : Invalidate(p)
    \/ \E p \in Procs : \E k \in req[p].pendingDels : DelOk(p, k)
    \/ \E p \in Procs : ProcessArticleReturn(p)
    \/ \E p \in Procs : Finish(p)
    \/ \E k \in DOMAIN cache : Expire(k)

SpecSeq == Init /\ [][NextSeq]_vars

----------------------------------------------------------------------------
(* The same, started on a cache in which another writer has left payloads  *)
(* that are not JSON under keys of the service.                            *)

\* The keys the calls of the model read.
ServiceKeys ==
    {FindWordsCacheKey(words) : words \in WordLists}
        \cup {MostCommonCacheKey(word) : word \in QueryWords}

InitCorrupt ==
    /\ \E texts \in InitialTexts :
          /\ wordIndex = UNION {IndexRows(id, texts[id]) : id \in Articles}
          /\ wordArticleCount = UNION {CountRows(id, texts[id]) : id \in Articles}
    /\ \E K \in SUBSET ServiceKeys :
          /\ K # {}
          /\ cache = [k \in K |-> [payload |-> Malformed, ttl |-> CacheTtl]]
    /\ req = [p \in Procs |-> Idle]
    /\ calls = 0
    /\ text = <<>>
    /\ agg = [pc |-> "idle"]
    /\ lists = <<>>
    /\ keys = [pc |-> "idle"]

NextCorrupt ==
    \/ NextSeq
    \/ \E p \in Procs : CacheGetUnparsable(p)

SpecCorrupt == InitCorrupt /\ [][NextCorrupt]_vars

----------------------------------------------------------------------------
(* Queries only, run concurrently without backend failure on a store that  *)
(* no call changes: articles 1 and 2 both indexed from "a", so that the    *)
(* rows of "a" have the same count.                                        *)

TiedTexts == [id \in Articles |-> s_a]

InitTie ==
    /\ wordIndex = UNION {IndexRows(id, TiedTexts[id]) : id \in Articles}
    /\ wordArticleCount = UNION {CountRows(id, TiedTexts[id]) : id \in Articles}
    /\ cache = <<>>
    /\ req = [p \in Procs |-> Idle]
    /\ calls = 0
    /\ text = <<>>
    /\ agg = [pc |-> "idle"]
    /\ lists = <<>>
    /\ keys = [pc |-> "idle"]

NextTie ==
    \/ \E p \in Procs, words \in WordLists : CallFindWords(p, words)
    \/ \E p \in Procs, word \in QueryWords : CallGetMostCommonWordArticle(p, word)
    \/ \E p \in Procs : CacheGetOk(p)
    \/ \E p \in Procs : FindWordsQueryOk(p)
    \/ \E p \in Procs : MostCommonQueryOk(p)
    \/ \E p \in Procs : CacheSetOk(p)
    \/ \E p \in Procs : Finish(p)
    \/ \E k \in DOMAIN cache : Expire(k)

SpecTie == InitTie /\ [][NextTie]_vars

\* The calls of the termination check: one word list, one query word and
\* two contents, every backend outcome allowed.
LiveWordLists == {<<s_a, s_B>>}

LiveContents == {<<>>, s_b}

NextLive ==
    \/ \E p \in Procs, words \in LiveWordLists : CallFindWords(p, words)
    \/ \E p \in Procs, word \in QueryWords : CallGetMostCommonWordArticle(p, word)
    \/ \E p \in Procs, id \in Articles, content \in LiveContents :
          CallProcessArticle(p, id, content)
    \/ \E p \in Procs : CacheGetOk(p)
    \/ \E p \in Procs : CacheGetFail(p)
    \/ \E p \in Procs : FindWordsQueryOk(p)
    \/ \E p \in Procs : MostCommonQueryOk(p)
    \/ \E p \in Procs : QueryFail(p)
    \/ \E p \in Procs : CacheSetOk(p)
    \/ \E p \in Procs : CacheSetFail(p)
    \/ \E p \in Procs : TxDeleteIndex(p)
    \/ \E p \in Procs : TxDeleteCount(p)
    \/ \E p \in Procs : TxCreateIndex(p)
    \/ \E p \in Procs : TxCreateCount(p)
    \/ \E p \in Procs : TxCommit(p)
    \/ \E p \in Procs : TxFail(p)
    \/ \E p \in Procs : Invalidate(p)
    \/ \E p \in Procs : \E k \in req[p].pendingDels : DelOk(p, k)
    \/ \E p \in Procs : \E k \in req[p].pendingDels : DelFail(p, k)
    \/ \E p \in Procs : ProcessArticleReturn(p)
    \/ \E p \in Procs : Finish(p)
    \/ \E k \in DOMAIN cache : Expire(k)

\* Every backend call settles, resolving or rejecting, and the event loop
\* then runs the continuation of the call that awaited it.
SpecLive == InitTie /\ [][NextLive]_vars /\ \A p \in Procs : WF_vars(Step(p))

----------------------------------------------------------------------------
(* Reference definitions used by the properties: the word tokens of a text *)
(* read off the text directly, without the split and the loop of the code. *)

\* 1-based indices at which a maximal run of word characters starts.
RefStarts(s) ==
    {i \in 1..Len(s) : IsWordChar(s[i]) /\ (i = 1 \/ ~IsWordChar(s[i - 1]))}

\* The maximal run of word characters that starts at index i.
RefRun(s, i) ==
    LET j == CHOOSE e \in i..Len(s) :
                /\ \A k \in i..e : IsWordChar(s[k])
                /\ (e = Len(s) \/ ~IsWordChar(s[e + 1]))
    IN SubSeq(s, i, j)

\* The elements of a finite set of numbers in increasing order.
RECURSIVE Ascending(_)
Ascending(S) ==
    IF S = {} THEN <<>>
    ELSE LET m == CHOOSE x \in S : \A y \in S : x <= y
         IN <<m>> \o Ascending(S \ {m})

\* The elements of a finite set of strings in the order of sort().
RECURSIVE SortedWords(_)
SortedWords(S) ==
    IF S = {} THEN <<>>
    ELSE LET m == CHOOSE x \in S : \A y \in S \ {x} : StrLess(x, y)
         IN <<m>> \o SortedWords(S \ {m})

\* Words of the lower-cased text and the 0-based offsets of word w in it.
LoweredWords(content) ==
    LET l == ToLowerCase(content) IN {RefRun(l, i) : i \in RefStarts(l)}

LoweredOffsets(content, w) ==
    LET l == ToLowerCase(content)
    IN Ascending({i - 1 : i \in {j \in RefStarts(l) : RefRun(l, j) = w}})

\* Lower-cased words of the original text and the 0-based offsets, in the
\* original text, of the occurrences of w.
OriginalWords(content) ==
    {ToLowerCase(RefRun(content, i)) : i \in RefStarts(content)}

OriginalOffsets(content, w) ==
    Ascending({i - 1 : i \in {j \in RefStarts(content) :
                                 ToLowerCase(RefRun(content, j)) = w}})

\* The rows the index of content consists of, for article id.
ExpectedIndexRows(id, content) ==
    {[articleId |-> id, word |-> w, positions |-> LoweredOffsets(content, w)] :
        w \in LoweredWords(content)}

ExpectedCountRows(id, content) ==
    {[articleId |-> id, word |-> w, count |-> Len(LoweredOffsets(content, w))] :
        w \in LoweredWords(content)}

\* Lower-cased, deduplicated words of a list, and the key the cache contract
\* gives them.
NormSet(l) == {ToLowerCase(l[i]) : i \in 1..Len(l)}

ExpectedFindWordsKey(l) ==
    FindWordsPrefix \o ArrayJoin(SortedWords(NormSet(l)), Comma)

----------------------------------------------------------------------------
(* Properties. *)

\* C1: two word lists that are equal as sets once case, order and duplicates
\* are ignored get the same cache key, find-words:<sorted, comma-joined,
\* lower-cased, deduplicated words>.
C1_SameKeyForEqualSets ==
    (keys.pc = "done" /\ NormSet(lists[1]) = NormSet(lists[2]))
        => /\ keys.key1 = keys.key2
           /\ keys.key1 = ExpectedFindWordsKey(lists[1])

\* C2: on a cache miss with a successful query, the result of findWords has
\* exactly the lower-cased query words as keys, and the value of each word is
\* built from exactly the store rows of that word, one entry per row.
C2_FindWordsResult ==
    [][\A p \in Procs :
         (req[p].op = "findWords" /\ req[p].pc = "query" /\ req'[p].pc = "set")
           => LET res == req'[p].results
                  want == NormSet(req[p].arg)
              IN /\ ObjKeys(res) = want
                 /\ \A w \in want :
                      LET rows == {x \in wordIndex : x.word = w}
                          got == ObjOwn(res, w)
                      IN /\ Len(got) = Cardinality(rows)
                         /\ {got[i] : i \in 1..Len(got)} =
                              {[article_id |-> x.articleId, offsets |-> x.positions] :
                                  x \in rows}]_vars

\* C4: the positions list built for a word is strictly increasing and holds
\* exactly the 0-based offsets, in the original text, of the occurrences of
\* the word as a maximal run of word characters.
C4_OffsetsInOriginalText ==
    (agg.pc = "done" /\ ~agg.thrown)
        => /\ ObjKeys(agg.wordPositions) = OriginalWords(text)
           /\ \A i \in 1..Len(agg.wordPositions) :
                agg.wordPositions[i][2] =
                    OriginalOffsets(text, agg.wordPositions[i][1])

\* C5: in every reachable store state the (articleId, word) pairs of
\* WordArticleCount are those of WordIndex, and each count is the length of
\* the positions list of its pair.
C5_CountMatchesIndex ==
    /\ {<<x.articleId, x.word>> : x \in wordArticleCount} =
       {<<x.articleId, x.word>> : x \in wordIndex}
    /\ \A c \in wordArticleCount : \A x \in wordIndex :
          (x.articleId = c.articleId /\ x.word = c.word) => c.count = Len(x.positions)

----------------------------------------------------------------------------
(* Calls of one kind. *)

IsProcessArticle(p) == req[p].op = "processArticle"

IsQuery(p) == req[p].op \in {"findWords", "getMostCommonWordArticle"}

\* The transaction of the call of p has committed.
Committed(p) == IsProcessArticle(p) /\ req[p].pc \in {"committed", "invalidate", "returned"}

\* What a query returns from the rows the store gave it.
StoreResult(p) ==
    IF req[p].op = "findWords"
    THEN FormatResults(MapToLowerCase(req[p].words), 1, req[p].queried, <<>>)
    ELSE IF req[p].queried = Null THEN Null
    ELSE [article_id |-> req[p].queried.articleId, count |-> req[p].queried.count]

\* C3: after a successful processArticle(id, content) that no other
\* processArticle of the same article overlapped, the rows of the article
\* are exactly one row per distinct word of the lower-cased content with the
\* offsets of that word, in both tables; the former rows are gone, and empty
\* or word-free content leaves no row.
C3_ReplaceOnSuccess ==
    \A p \in Procs :
        (Committed(p) /\ ~req[p].overlap)
            => ArticleRows(req[p].arg.articleId) =
                 <<ExpectedIndexRows(req[p].arg.articleId, req[p].arg.content),
                   ExpectedCountRows(req[p].arg.articleId, req[p].arg.content)>>

\* A call returned after replacing the rows "a" of an article by the row "b".
C3_Witness ==
    \E p \in Procs :
        /\ IsProcessArticle(p) /\ req[p].pc = "returned" /\ ~req[p].overlap
        /\ req[p].arg.content = s_b
        /\ req[p].startRows[1] # {}
        /\ \A x \in req[p].startRows[1] : x.word = s_a

C7_InvalidationIssued ==
    \A p \in Procs :
        (IsProcessArticle(p) /\ req[p].pc \in {"invalidate", "returned"})
            => ({TopWordsPattern} \cup
                {MostCommonWordPrefix \o w : w \in LoweredWords(req[p].arg.content)})
                   \subseteq req[p].delCalls

\* processArticle(id, "A a b") returned: deletes for a, b and top-words:*.
C7_Witness ==
    \E p \in Procs :
        /\ IsProcessArticle(p) /\ req[p].pc = "returned"
        /\ req[p].arg.content = s_A_a_b
        /\ req[p].delCalls =
             {TopWordsPattern, MostCommonWordPrefix \o s_a, MostCommonWordPrefix \o s_b}

\* C8: on a cache miss getMostCommonWordArticle(w) writes the cache exactly
\* when the store returned a row for lower(w): then it writes and returns
\* {article_id, count} of the row under most-common-word:<lower(w)> with TTL
\* 600; with no row it returns null and writes nothing.
C8_CacheWriteIffRowFound ==
    \A p \in Procs :
        (req[p].op = "getMostCommonWordArticle" /\ req[p].pc = "returned"
            /\ req[p].queried # Undefined)
            => IF req[p].queried = Null
               THEN req[p].ret = Null /\ req[p].setCalls = {}
               ELSE /\ req[p].queried.word = ToLowerCase(req[p].arg)
                    /\ req[p].ret = [article_id |-> req[p].queried.articleId,
                                     count |-> req[p].queried.count]
                    /\ req[p].setCalls =
                         {[key |-> MostCommonWordPrefix \o ToLowerCase(req[p].arg),
                           payload |-> JSONStringify(req[p].ret),
                           ttl |-> 600]}

\* getMostCommonWordArticle("A") returned the row of article 1 after a miss.
C8_Witness ==
    \E p \in Procs :
        /\ req[p].op = "getMostCommonWordArticle" /\ req[p].pc = "returned"
        /\ req[p].queried # Undefined /\ req[p].queried # Null
        /\ req[p].ret = [article_id |-> "1", count |-> 2]
        /\ req[p].setCalls # {}

\* C9: when every attempt of the cache get failed, findWords and
\* getMostCommonWordArticle log a warning, go on to the store, return what a
\* cache miss returns, and raise only if the store query itself fails.
C9_GetFailureFallsBackToStore ==
    \A p \in Procs :
        (IsQuery(p) /\ req[p].getExhausted)
            => /\ req[p].warned
               /\ req[p].pc \in {"query", "set", "returned", "raised"}
               /\ (req[p].pc = "raised" => req[p].thrown = "store")
               /\ (req[p].pc = "returned" => req[p].ret = StoreResult(p))

\* findWords returned rows of the store after four failed cache gets.
C9_Witness ==
    \E p \in Procs :
        /\ req[p].op = "findWords" /\ req[p].getExhausted /\ req[p].pc = "returned"
        /\ req[p].warned
        /\ Len(req[p].queried) > 0
        /\ req[p].ret = req[p].results

\* C10: when every attempt of the store query of findWords or
\* getMostCommonWordArticle failed, the call raises that error, logs an
\* error and performs no cache write.
C10_QueryFailureRaises ==
    \A p \in Procs :
        (IsQuery(p) /\ req[p].thrown = "store")
            => /\ req[p].pc = "raised"
               /\ req[p].attempt = Retries
               /\ req[p].errored
               /\ req[p].ret = Undefined
               /\ req[p].setCalls = {}

\* getMostCommonWordArticle raised after four failed store queries.
C10_Witness ==
    \E p \in Procs :
        /\ req[p].op = "getMostCommonWordArticle" /\ req[p].pc = "raised"
        /\ req[p].thrown = "store" /\ req[p].attempt = Retries /\ req[p].errored

\* C11: when the cache get of findWords or getMostCommonWordArticle resolves
\* with a payload for the key of the request, the call returns the parsed
\* payload at once: no store query, no cache write, no change of the cache
\* or of the store.
C11_CacheHitReturnsPayload ==
    [][\A p \in Procs :
         (/\ IsQuery(p) /\ req[p].pc = "get"
          /\ req'[p].pc # "get" /\ ~req'[p].getExhausted
          /\ req[p].cacheKey \in DOMAIN cache)
           => /\ req'[p].pc = "returned"
              /\ req'[p].ret = cache[req[p].cacheKey].payload.json
              /\ req'[p].queried = Undefined
              /\ req'[p].setCalls = {}
              /\ cache' = cache
              /\ wordIndex' = wordIndex
              /\ wordArticleCount' = wordArticleCount]_vars

\* getMostCommonWordArticle("A") returned the cached {article_id: "1",
\* count: 2} without a query.
C11_Witness ==
    \E p \in Procs :
        /\ req[p].op = "getMostCommonWordArticle" /\ req[p].pc = "returned"
        /\ req[p].queried = Undefined
        /\ req[p].setCalls = {}
        /\ req[p].ret = [article_id |-> "1", count |-> 2]

\* C12: on a cache miss the result of getMostCommonWordArticle(w) is the
\* article_id and count of a row of WordArticleCount with word = lower(w)
\* whose count no other row of that word exceeds, taken from the rows
\* committed when the query runs; that result is what the call returns.
C12_ReturnsMaximalCountRow ==
    /\ [][\A p \in Procs :
            (/\ req[p].op = "getMostCommonWordArticle"
             /\ req[p].pc = "query" /\ req'[p].pc = "set")
              => LET rows == {x \in wordArticleCount : x.word = ToLowerCase(req[p].arg)}
                 IN \E x \in rows :
                       /\ \A y \in rows : y.count <= x.count
                       /\ req'[p].results =
                            [article_id |-> x.articleId, count |-> x.count]]_vars
    /\ [](\A p \in Procs :
            (/\ req[p].op = "getMostCommonWordArticle"
             /\ req[p].pc = "returned" /\ req[p].setCalls # {})
              => req[p].ret = req[p].results)

\* The query for "A" chose the row of count 2 while a row of count 1 for
\* the same word is in the store.
C12_Witness ==
    \E p \in Procs :
        /\ req[p].op = "getMostCommonWordArticle" /\ req[p].pc = "set"
        /\ req[p].results = [article_id |-> "1", count |-> 2]
        /\ \E y \in wordArticleCount : y.word = s_a /\ y.count = 1

\* The rows a successful processArticle of the content of call p leaves.
ExpectedRows(p) ==
    <<ExpectedIndexRows(req[p].arg.articleId, req[p].arg.content),
      ExpectedCountRows(req[p].arg.articleId, req[p].arg.content)>>

\* C13: a processArticle(id, content) that starts when the rows of id are
\* those a processArticle(id, content) leaves, and that no other
\* processArticle of id overlaps, changes neither table when it commits and
\* leaves the rows of id as they were: rows are replaced, not accumulated.
C13_SameContentSameRows ==
    /\ [][\A p \in Procs :
            (/\ IsProcessArticle(p)
             /\ req[p].pc = "tx_commit" /\ req'[p].pc = "committed"
             /\ ~req[p].overlap
             /\ req[p].startRows = ExpectedRows(p))
              => /\ wordIndex' = wordIndex
                 /\ wordArticleCount' = wordArticleCount]_vars
    /\ [](\A p \in Procs :
            (Committed(p) /\ ~req[p].overlap /\ req[p].startRows = ExpectedRows(p))
              => ArticleRows(req[p].arg.articleId) = req[p].startRows)

\* The second of two calls processArticle(id, "b") returned: it started on
\* the rows the first one left (no row "b" exists before the first call).
C13_Witness ==
    \E p \in Procs :
        /\ IsProcessArticle(p) /\ req[p].pc = "returned" /\ ~req[p].overlap
        /\ req[p].arg.content = s_b
        /\ req[p].startRows = ExpectedRows(p)
        /\ calls = 2

\* C14: when two processArticle calls for the same article with different
\* contents have overlapped and both transactions have committed, the rows
\* of the article are exactly those derived from the content of the call
\* that committed last.
C14_LastCommitWins ==
    \A p \in Procs : \A q \in Procs \ {p} :
        (/\ Committed(p) /\ Committed(q)
         /\ req[p].arg.articleId = req[q].arg.articleId
         /\ req[p].arg.content # req[q].arg.content
         /\ req[p].overlap /\ req[q].overlap
         /\ req[p].lastCommit)
          => ArticleRows(req[p].arg.articleId) = ExpectedRows(p)

----------------------------------------------------------------------------
(* Cache entries compared with the committed rows. *)

\* The mapping cached for a word list, if any, gives every word it holds the
\* entries of the committed rows of that word.
FreshFindWords(words) ==
    LET k == FindWordsPrefix \o ArrayJoin(ArraySort(words), Comma)
    IN k \in DOMAIN cache
         => LET res == cache[k].payload.json
            IN \A w \in ObjKeys(res) :
                 {ObjOwn(res, w)[i] : i \in 1..Len(ObjOwn(res, w))} =
                    {[article_id |-> x.articleId, offsets |-> x.positions] :
                        x \in {y \in wordIndex : y.word = w}}

\* {article_id, count} of the committed rows of word w of maximal count.
TopCountRows(w) ==
    LET rows == {x \in wordArticleCount : x.word = w}
    IN {[article_id |-> x.articleId, count |-> x.count] :
           x \in {y \in rows : \A z \in rows : z.count <= y.count}}

\* The entry most-common-word:<w>, if any, is a top-count row of w.
FreshMostCommon(w) ==
    LET k == MostCommonWordPrefix \o w
    IN k \in DOMAIN cache => cache[k].payload.json \in TopCountRows(w)

\* C15: when calls do not overlap and no backend call fails, after a
\* successful processArticle no find-words entry remains in the cache whose
\* mapping differs from the committed rows: an entry written before the
\* reindex for a word whose rows the reindex changed has been deleted.
C15_NoStaleFindWordsEntry ==
    \A p \in Procs :
        (IsProcessArticle(p) /\ req[p].pc = "returned")
            => \A words \in WordLists : FreshFindWords(words)

\* C16: when calls do not overlap and no backend call fails, between calls
\* every entry most-common-word:<w> present in the cache is a top-count row
\* of w in the store, also for a word the article held before a reindex
\* and no longer holds.
C16_MostCommonEntryIsCurrent ==
    (\A p \in Procs : req[p].pc \in {"idle", "returned"})
        => \A w \in QueryWords : FreshMostCommon(ToLowerCase(w))

\* C17: when no backend call fails, once a getMostCommonWordArticle(w) and a
\* processArticle whose content holds w have both returned, in whatever
\* order their steps were taken, the entry most-common-word:<w> is absent
\* or is a top-count row of w in the store.
C17_ReaderLeavesNoStaleEntry ==
    \A p \in Procs : \A q \in Procs \ {p} :
        (/\ req[p].op = "getMostCommonWordArticle" /\ req[p].pc = "returned"
         /\ IsProcessArticle(q) /\ req[q].pc = "returned"
         /\ ToLowerCase(req[p].arg) \in LoweredWords(req[q].arg.content))
          => FreshMostCommon(ToLowerCase(req[p].arg))

\* C18: building the word-to-positions map completes without raising for
\* every text, whatever its word tokens are ("constructor" and "__proto__"
\* included), and the map has one key per distinct word token.
C18_AggregationIsTotal ==
    agg.pc = "done"
        => /\ ~agg.thrown
           /\ ObjKeys(agg.wordPositions) = LoweredWords(text)

----------------------------------------------------------------------------
(* Retries. *)

\* The retried operation a call is in: the cache get, the store query, the
\* cache set or the index transaction.
RetriedOp(pc) ==
    IF pc \in TxPcs THEN "tx"
    ELSE IF pc \in {"get", "query", "set"} THEN pc
    ELSE "none"

\* The place of a step in the course of a call.
Stage(pc) ==
    IF pc = "idle" THEN 0
    ELSE IF pc = "get" \/ pc \in TxPcs THEN 1
    ELSE IF pc \in {"query", "committed"} THEN 2
    ELSE IF pc \in {"set", "invalidate"} THEN 3
    ELSE 4

\* C19: a call makes at most 4 attempts (1 + 3 retries) of its cache get,
\* of its store query, of its cache set and of its index transaction; a
\* further attempt is made only when the previous one failed, and once an
\* operation has succeeded or been given up the call never attempts it
\* again.
C19_AtMostFourAttempts ==
    /\ [](\A p \in Procs : req[p].attempt + 1 <= 4)
    /\ [][\A p \in Procs :
            /\ (/\ RetriedOp(req[p].pc) # "none"
                /\ RetriedOp(req'[p].pc) = RetriedOp(req[p].pc)
                /\ (req'[p].attempt # req[p].attempt
                      \/ (req'[p].pc = "tx_delIndex" /\ req[p].pc # "tx_delIndex")))
                  => /\ req'[p].attempt = req[p].attempt + 1
                     /\ \/ CacheGetFail(p)
                        \/ QueryFail(p)
                        \/ CacheSetFail(p)
                        \/ TxFail(p)
            /\ (/\ req[p].pc # "idle" /\ req'[p].pc # "idle"
                /\ RetriedOp(req'[p].pc) # RetriedOp(req[p].pc))
                  => Stage(req'[p].pc) > Stage(req[p].pc)]_vars

\* processArticle returned after its transaction committed at the fourth
\* attempt.
C19_Witness ==
    \E p \in Procs :
        /\ IsProcessArticle(p) /\ req[p].pc = "returned"
        /\ req[p].attempt = Retries

\* C20: when a redis.del issued by the invalidation of processArticle
\* rejects, the delete is attempted again (it stays pending) or, the retries
\* being used up, a warning has been logged.
C20_FailedDeleteIsRetried ==
    [][\A p \in Procs : \A k \in req[p].pendingDels :
          DelFail(p, k) => (k \in req'[p].pendingDels \/ req'[p].warned)]_vars

----------------------------------------------------------------------------
(* Failures of the cache after the store has answered. *)

\* C21: once the transaction of processArticle has committed, the call
\* goes on to return to its caller without an error, whichever of its
\* redis.del calls reject; and once the store query of findWords or
\* getMostCommonWordArticle has answered, a rejected redis.set, on any
\* attempt, never makes the call raise: it returns the store result.
C21_CacheFailureNeverFailsRequest ==
    /\ [][\A p \in Procs :
            /\ (Committed(p) /\ req'[p].pc # "idle")
                  => /\ Committed(p)'
                     /\ req'[p].thrown = "none" /\ ~req'[p].errored
            /\ \A k \in req[p].pendingDels :
                  DelFail(p, k) => req'[p].pc = "invalidate" /\ req'[p].thrown = "none"
            /\ (IsQuery(p) /\ req[p].pc = "set")
                  => /\ req'[p].pc \in {"set", "returned"}
                     /\ req'[p].thrown = "none" /\ ~req'[p].errored
                     /\ req'[p].pc = "returned" => req'[p].ret = StoreResult(p)]_vars
    /\ [](\A p \in Procs :
            (IsProcessArticle(p) /\ req[p].pc = "returned")
               => req[p].ret = Undefined /\ req[p].thrown = "none")

\* getMostCommonWordArticle returned the row of the store after its cache
\* get answered and every attempt of its cache set failed.
C21_Witness ==
    \E p \in Procs :
        /\ req[p].op = "getMostCommonWordArticle" /\ req[p].pc = "returned"
        /\ ~req[p].getExhausted /\ req[p].setCalls # {}
        /\ req[p].attempt = Retries /\ req[p].warned
        /\ req[p].ret = [article_id |-> "1", count |-> 2]
        /\ req[p].cacheKey \notin DOMAIN cache

\* C26: when findWords has returned or raised, the array its caller passed
\* holds the same elements in the same order as when the call was made.
C26_CallerListUnchanged ==
    \A p \in Procs :
        (req[p].op = "findWords" /\ req[p].pc \in {"returned", "raised"})
            => req[p].words = req[p].arg

\* C22: when the payload the cache returns for the key of findWords or
\* getMostCommonWordArticle does not parse, the call does not raise: it goes
\* on to the store query as on a cache miss (there is no cache failure and
\* no store failure in this specification) and returns the result built
\* from the rows of the store.
C22_UnparsablePayloadIsAMiss ==
    /\ [][\A p \in Procs :
            CacheGetUnparsable(p)
              => /\ req'[p].pc \in {"get", "query"}
                 /\ req'[p].thrown = "none" /\ ~req'[p].errored]_vars
    /\ [](\A p \in Procs :
            (IsQuery(p) /\ req[p].getExhausted)
              => /\ req[p].pc \in {"query", "set", "returned"}
                 /\ req[p].thrown = "none"
                 /\ (req[p].pc = "returned" => req[p].ret = StoreResult(p)))

\* getMostCommonWordArticle("A") found a payload that is not JSON and
\* returned the row of the store.
C22_Witness ==
    \E p \in Procs :
        /\ req[p].op = "getMostCommonWordArticle" /\ req[p].pc = "returned"
        /\ req[p].getExhausted /\ req[p].warned
        /\ req[p].ret = [article_id |-> "1", count |-> 2]
        /\ calls = 1

\* C23: on a store that does not change and in which several articles share
\* the maximal count of word w, any two calls getMostCommonWordArticle(w)
\* that missed the cache and queried the store have the same article_id in
\* their results.
C23_SameArticleUnderTies ==
    \A p \in Procs : \A q \in Procs \ {p} :
        (/\ req[p].op = "getMostCommonWordArticle"
         /\ req[q].op = "getMostCommonWordArticle"
         /\ req[p].arg = req[q].arg
         /\ req[p].setCalls # {} /\ req[q].setCalls # {})
          => req[p].results.article_id = req[q].results.article_id

\* C24: the rows of an article change only at the commit of a
\* processArticle for that article, so a call for article id, succeeding
\* or failing, leaves the rows of every other article as they are; and when
\* two calls for different articles have both committed, in whatever order
\* their steps were taken and with no other call for either article since
\* they started, each article holds exactly the rows derived from the
\* content of its own call; if one of the two raised instead, its article
\* holds the rows it had when the call started.
C24_OtherArticlesUnchanged ==
    /\ [][\A id \in Articles :
            ArticleRows(id)' # ArticleRows(id)
              => \E p \in Procs :
                    /\ IsProcessArticle(p) /\ req[p].arg.articleId = id
                    /\ req[p].pc = "tx_commit" /\ req'[p].pc = "committed"]_vars
    /\ [](\A p \in Procs : \A q \in Procs \ {p} :
            (/\ Committed(p) /\ Committed(q)
             /\ req[p].arg.articleId # req[q].arg.articleId
             /\ ~req[p].overlap /\ ~req[q].overlap)
              => /\ ArticleRows(req[p].arg.articleId) = ExpectedRows(p)
                 /\ ArticleRows(req[q].arg.articleId) = ExpectedRows(q))
    /\ [](\A p \in Procs : \A q \in Procs \ {p} :
            (/\ IsProcessArticle(p) /\ req[p].pc = "raised"
             /\ Committed(q)
             /\ req[p].arg.articleId # req[q].arg.articleId
             /\ ~req[p].overlap /\ ~req[q].overlap)
              => /\ ArticleRows(req[p].arg.articleId) = req[p].startRows
                 /\ ArticleRows(req[q].arg.articleId) = ExpectedRows(q))

\* processArticle("1", "b") and processArticle("2", "A a b") were in
\* progress together on a store that held rows of both articles, and both
\* have committed.
C24_Witness ==
    \E p \in Procs : \E q \in Procs \ {p} :
        /\ IsProcessArticle(p) /\ req[p].pc = "committed"
        /\ IsProcessArticle(q) /\ req[q].pc = "committed"
        /\ req[p].arg = [articleId |-> "1", content |-> s_b]
        /\ req[q].arg = [articleId |-> "2", content |-> s_A_a_b]
        /\ ~req[p].overlap /\ ~req[q].overlap
        /\ req[p].startRows[1] # {} /\ req[q].startRows[1] # {}
        /\ req[p].startRows[1] \cap wordIndex = {}

\* C25: two word lists whose lower-cased, deduplicated word sets differ
\* never get the same cache key, whatever the words are (the empty list,
\* the empty string and words that contain "," included).
C25_DifferentSetsDifferentKeys ==
    (keys.pc = "done" /\ NormSet(lists[1]) # NormSet(lists[2]))
        => keys.key1 # keys.key2

\* C27: every call of findWords, getMostCommonWordArticle and
\* processArticle that has started eventually returns or raises, whatever
\* attempts of the cache and of the store fail, provided every backend call
\* settles.
C27_EveryCallCompletes ==
    \A p \in Procs :
        (req[p].pc # "idle") ~> (req[p].pc \in {"returned", "raised"})

\* findWords raised after every attempt of its cache get and every attempt
\* of its store query failed.
C27_Witness ==
    \E p \in Procs :
        /\ req[p].op = "findWords" /\ req[p].pc = "raised"
        /\ req[p].getExhausted /\ req[p].thrown = "store"
        /\ req[p].attempt = Retries

====
